---- MODULE Spec2Model ----
(***************************************************************************)
(* Model of plugins/inventory/file_system.py: the InventoryGenerator that  *)
(* builds an Ansible inventory from a tree of YAML definition files.       *)
(*                                                                         *)
(* Text is modelled as a sequence of one-character strings, so that the    *)
(* regular expression, split, translate, int() and "%02d" are computed     *)
(* character by character.  A parsed YAML / Python value is a record       *)
(* [kind, val] with kind in "dict", "list", "str", "int", "none"; a dict's *)
(* val is a function from keys to values.                                  *)
(***************************************************************************)
EXTENDS Integers, Sequences, FiniteSets, TLC

VARIABLES
    kwargs,             \* keyword arguments handed to InventoryGenerator(...)
    listing,            \* definition files on disk, in directory-listing order
    environment_domain, \* self.environment_domain
    os_class_map,       \* self.os_class_map
    sub_group_map,      \* self.sub_group_map
    pc,                 \* "new", "running", "done" or "raised" ("idle": no object)
    exc,                \* the exception that ended the run, or "none"
    cursor,             \* number of definition files the walker has opened
    pending,            \* identities of the current file not yet pulled
    hosts,              \* output["all"]["hosts"]
    hostvars,           \* output["_meta"]["hostvars"]
    trace,              \* history: every identity pulled and what became of it
    m_pc,               \* position of the caller of merge
    m_a,                \* first argument of merge
    m_b,                \* second argument of merge
    m_data,             \* parsed definition data handed to the fact-list reduction
    m_out               \* value returned (or the exception raised)

vars == <<kwargs, listing, environment_domain, os_class_map, sub_group_map, pc, exc,
          cursor, pending, hosts, hostvars, trace, m_pc, m_a, m_b, m_data, m_out>>

pipeline_vars == <<kwargs, listing, environment_domain, os_class_map, sub_group_map,
                   pc, exc, cursor, pending, hosts, hostvars, trace>>

merge_vars == <<m_pc, m_a, m_b, m_data, m_out>>

(***************************************************************************)
(* Bounds of the model.                                                    *)
(***************************************************************************)
MaxLeaf == 2
MaxFacts == 3
MaxNum == 2
MaxFiles == 2

(***************************************************************************)
(* Python values.                                                          *)
(***************************************************************************)
PyNone == [kind |-> "none", val |-> 0]
PyInt(n) == [kind |-> "int", val |-> n]
PyStr(s) == [kind |-> "str", val |-> s]
PyList(l) == [kind |-> "list", val |-> l]
PyDict(f) == [kind |-> "dict", val |-> f]
EmptyDict == PyDict(<<>>)

isdict(v) == v.kind = "dict"

\* Python truth value: bool(v)
truthy(v) ==
    CASE v.kind = "none" -> FALSE
      [] v.kind = "int"  -> v.val # 0
      [] v.kind = "str"  -> Len(v.val) > 0
      [] v.kind = "list" -> Len(v.val) > 0
      [] v.kind = "dict" -> DOMAIN v.val # {}

\* d.get(key, default) on a dict value
get(d, key, default) == IF key \in DOMAIN d.val THEN d.val[key] ELSE default

\* d[key] = value on the items of a dict
setitem(f, key, value) ==
    [k \in (DOMAIN f) \cup {key} |-> IF k = key THEN value ELSE f[k]]

\* the sequences over S of length at most n
RECURSIVE SeqsUpTo(_, _)
SeqsUpTo(S, n) ==
    IF n = 0 THEN {<<>>}
    ELSE SeqsUpTo(S, n - 1) \cup {Append(s, x) : s \in {t \in SeqsUpTo(S, n - 1) : Len(t) = n - 1}, x \in S}

Raise(e) == [raised |-> TRUE, exc |-> e, val |-> PyNone]
Return(v) == [raised |-> FALSE, exc |-> "none", val |-> v]

(***************************************************************************)
(* merge(a, b): "merges b into a".  The value of `a` after the call, which *)
(* is also the content of the dict(a) the call returns.  A recursive call  *)
(* whose result is discarded changes a[key] in place only when both values *)
(* are truthy: `if not all([a, b]): return dict(a)` leaves a[key] as it is.*)
(***************************************************************************)
RECURSIVE merged(_, _)
merge_b_wins(a, b) ==
    IF ~(truthy(a) /\ truthy(b))
    THEN a
    ELSE PyDict([key \in (DOMAIN a.val) \cup (DOMAIN b.val) |->
                   IF key \in DOMAIN b.val
                   THEN IF key \in DOMAIN a.val /\ isdict(a.val[key]) /\ isdict(b.val[key])
                        THEN merged(a.val[key], b.val[key])
                        ELSE b.val[key]
                   ELSE a.val[key]])

merged(a, b) ==
    IF ~(truthy(a) /\ truthy(b))
    THEN a
    ELSE PyDict([key \in (DOMAIN a.val) \cup (DOMAIN b.val) |->
                   IF key \in DOMAIN a.val
                   THEN IF key \in DOMAIN b.val /\ isdict(a.val[key]) /\ isdict(b.val[key])
                        THEN merged(a.val[key], b.val[key])
                        ELSE a.val[key]
                   ELSE b.val[key]])

\* The call as a caller sees it: dict(a) raises TypeError when a is None.
merge(a, b) ==
    IF ~(truthy(a) /\ truthy(b))
    THEN IF isdict(a) THEN Return(a) ELSE Raise("TypeError")
    ELSE Return(merged(a, b))

\* dict(v): a copy of a mapping, TypeError for a number or None, ValueError
\* for a non-empty string (its elements are not pairs).
dict(v) ==
    CASE v.kind = "dict" -> Return(v)
      [] v.kind = "int"  -> Raise("TypeError")
      [] v.kind = "none" -> Raise("TypeError")
      [] v.kind = "list" -> IF Len(v.val) = 0 THEN Return(EmptyDict) ELSE Raise("TypeError")
      [] v.kind = "str"  -> IF Len(v.val) = 0 THEN Return(EmptyDict) ELSE Raise("ValueError")

\* f.get(key, {}) on an entry that may not be a mapping
get_attr(f, key) == IF isdict(f) THEN Return(get(f, key, EmptyDict)) ELSE Raise("AttributeError")

\* dict(f.get(key, {}))
dict_of(f, key) == IF get_attr(f, key).raised THEN get_attr(f, key) ELSE dict(get_attr(f, key).val)

(***************************************************************************)
(* generate_host_data, lines 237-252: the declared variables of a parsed   *)
(* definition file.  The list comprehension evaluates dict(f.get(...)) for *)
(* every entry in order, so the first entry that raises decides the        *)
(* exception; only TypeError is caught, and leaves the variables empty.    *)
(***************************************************************************)
RECURSIVE first_error(_)
first_error(entries) ==
    IF Len(entries) = 0 THEN "none"
    ELSE IF dict_of(Head(entries), "set_fact").raised
         THEN dict_of(Head(entries), "set_fact").exc
         ELSE first_error(Tail(entries))

RECURSIVE facts_of(_)
facts_of(entries) ==
    IF Len(entries) = 0 THEN <<>>
    ELSE IF truthy(dict_of(Head(entries), "set_fact").val)
         THEN <<dict_of(Head(entries), "set_fact").val>> \o facts_of(Tail(entries))
         ELSE facts_of(Tail(entries))

\* for fact_vars in definition_file_facts: vars = self.merge(fact_vars, vars)
RECURSIVE reduce_facts(_, _)
reduce_facts_earlier_wins(facts, acc) ==
    IF Len(facts) = 0 THEN acc
    ELSE reduce_facts(Tail(facts), IF truthy(acc) THEN merge(acc, Head(facts)).val ELSE Head(facts))

reduce_facts(facts, acc) ==
    IF Len(facts) = 0 THEN acc
    ELSE reduce_facts(Tail(facts), merge(Head(facts), acc).val)

Key0 == "0 (int)"   \* the integer key 0 of a top-level mapping

declared_vars(definition_data) ==
    CASE definition_data.kind = "dict" ->
            IF Key0 \notin DOMAIN definition_data.val
            THEN Raise("KeyError")
            ELSE LET r == dict_of(definition_data.val[Key0], "vars")
                 IN  IF r.raised /\ r.exc = "TypeError" THEN Return(EmptyDict) ELSE r
      [] definition_data.kind = "list" ->
            LET e == first_error(definition_data.val)
            IN  IF e = "none"
                THEN Return(reduce_facts(facts_of(definition_data.val), EmptyDict))
                ELSE IF e = "TypeError" THEN Return(EmptyDict) ELSE Raise(e)
      [] OTHER -> Return(EmptyDict)

(***************************************************************************)
(* Text: str.split, str.join, str.translate, int(), "%02d" % n.            *)
(***************************************************************************)
Digits == <<"0", "1", "2", "3", "4", "5", "6", "7", "8", "9">>
isdigit(c) == \E i \in 1..Len(Digits) : Digits[i] = c
digit_value(c) == (CHOOSE i \in 1..Len(Digits) : Digits[i] = c) - 1

\* int(s) raises ValueError unless s is a non-empty run of digits (the file
\* names of the model hold no sign, blank or underscore inside a number).
int_ok(s) == Len(s) > 0 /\ \A i \in 1..Len(s) : isdigit(s[i])

RECURSIVE int(_)
int(s) ==
    IF Len(s) = 0 THEN 0
    ELSE int(SubSeq(s, 1, Len(s) - 1)) * 10 + digit_value(s[Len(s)])

RECURSIVE str_of_int(_)
str_of_int(n) ==
    IF n < 10 THEN <<Digits[n + 1]>>
    ELSE str_of_int(n \div 10) \o <<Digits[(n % 10) + 1]>>

\* "%02d" % n
format_02d(n) == IF n < 10 THEN <<"0">> \o str_of_int(n) ELSE str_of_int(n)

RECURSIVE split(_, _)
split(s, sep) ==
    IF \E i \in 1..Len(s) : s[i] = sep
    THEN LET i == CHOOSE i \in 1..Len(s) : s[i] = sep /\ \A j \in 1..(i - 1) : s[j] # sep
         IN  <<SubSeq(s, 1, i - 1)>> \o split(SubSeq(s, i + 1, Len(s)), sep)
    ELSE <<s>>

RECURSIVE join(_, _)
join(parts, sep) ==
    IF Len(parts) = 0 THEN <<>>
    ELSE IF Len(parts) = 1 THEN parts[1]
    ELSE parts[1] \o sep \o join(Tail(parts), sep)

\* range_group.translate(str.maketrans('', '', '[]'))
IsNotBracket(c) == c \notin {"[", "]"}
strip_brackets(s) == SelectSeq(s, IsNotBracket)

Str_localhost == <<"l", "o", "c", "a", "l", "h", "o", "s", "t">>
Str_local == <<"l", "o", "c", "a", "l">>
Str_ansible_controller ==
    <<"a", "n", "s", "i", "b", "l", "e", "_", "c", "o", "n", "t", "r", "o", "l", "l", "e", "r">>
Str_definitions == <<"d", "e", "f", "i", "n", "i", "t", "i", "o", "n", "s">>
Str_yaml == <<".", "y", "a", "m", "l">>
Str_misc == <<"m", "i", "s", "c">>
Str_lxd == <<"l", "x", "d">>
Str_qemu == <<"q", "e", "m", "u">>

(***************************************************************************)
(* synthetic_hostname_pattern under re.match: any text (group 1), then a   *)
(* "[", one or more digits, any text and a "]" (group 2), then any text.   *)
(* Group 1 is greedy, so it ends at the last "[" that is followed by a     *)
(* digit and, later, by a "]"; group 2 runs from that "[" to the last "]". *)
(***************************************************************************)
match_starts(name) ==
    {i \in 0..Len(name) :
        /\ i + 2 <= Len(name)
        /\ name[i + 1] = "["
        /\ isdigit(name[i + 2])
        /\ \E j \in (i + 3)..Len(name) : name[j] = "]"}

synthetic_hostname_match(name) ==
    IF match_starts(name) = {}
    THEN [matched |-> FALSE, groups |-> <<>>]
    ELSE LET i == CHOOSE i \in match_starts(name) : \A h \in match_starts(name) : h <= i
             j == CHOOSE j \in (i + 3)..Len(name) :
                      name[j] = "]" /\ \A h \in (j + 1)..Len(name) : name[h] # "]"
         IN  [matched |-> TRUE,
              groups |-> <<SubSeq(name, 1, i), SubSeq(name, i + 1, j)>>]

(***************************************************************************)
(* expand_host: the host names of a synthetic file name, in order, or the  *)
(* ValueError of int() on a token that is no number.                       *)
(***************************************************************************)
expand_host_exclusive_end(groups) ==
    LET range_string == strip_brackets(groups[Len(groups)])
        hostnums == split(range_string, "-")
        hoststring == groups[1]
    IN  IF ~int_ok(hostnums[1]) \/ (Len(hostnums) > 1 /\ ~int_ok(hostnums[2]))
        THEN Raise("ValueError")
        ELSE LET start == int(hostnums[1])
                 end == IF Len(hostnums) > 1 THEN int(hostnums[2]) ELSE int(hostnums[1]) + 1
             IN  Return([n \in 1..(IF end > start THEN end - start ELSE 0) |->
                            hoststring \o format_02d(start + n - 1)])

expand_host(groups) ==
    LET range_string == strip_brackets(groups[Len(groups)])
        hostnums == split(range_string, "-")
        hoststring == groups[1]
    IN  IF ~int_ok(hostnums[1]) \/ (Len(hostnums) > 1 /\ ~int_ok(hostnums[2]))
        THEN Raise("ValueError")
        ELSE LET start == int(hostnums[1])
                 end == IF Len(hostnums) > 1 THEN int(hostnums[2]) + 1 ELSE int(hostnums[1]) + 1
             IN  Return([n \in 1..(IF end > start THEN end - start ELSE 0) |->
                            hoststring \o format_02d(start + n - 1)])

\* Path(...).stem of a name ending in one suffix
path_stem(name) ==
    LET dot == CHOOSE i \in 1..Len(name) : name[i] = "." /\ \A j \in (i + 1)..Len(name) : name[j] # "."
    IN  SubSeq(name, 1, dot - 1)

\* Path.joinpath(site_directory_obj, 'definitions').as_posix()
site_definitions_directory(site_directory) == site_directory \o <<"/">> \o Str_definitions

definition_file_path_of(site_directory, file) ==
    site_definitions_directory(site_directory) \o <<"/">> \o file.dir \o <<"/">> \o file.stem \o Str_yaml

(***************************************************************************)
(* traverse_site, for one definition file: the identities                  *)
(* (definition_file_path, hostname, hostname_short) it yields.             *)
(***************************************************************************)
traverse_file(site_directory, domain, file) ==
    LET definition_file_name == file.stem \o Str_yaml
        definition_file_path == definition_file_path_of(site_directory, file)
        expanded_host == synthetic_hostname_match(definition_file_name)
    IN  IF expanded_host.matched
        THEN LET ehs == expand_host(expanded_host.groups)
             IN  IF ehs.raised THEN ehs
                 ELSE Return([n \in 1..Len(ehs.val) |->
                                <<definition_file_path, ehs.val[n] \o <<".">> \o domain, ehs.val[n]>>])
        ELSE LET hostname_short == path_stem(definition_file_name)
                 hostname == IF hostname_short = Str_localhost
                             THEN hostname_short
                             ELSE hostname_short \o <<".">> \o domain
             IN  Return(<<<<definition_file_path, hostname, hostname_short>>>>)

(***************************************************************************)
(* __init__, lines 135-157: a classification map from a configuration      *)
(* value.  The value is [kind, is_file, val]: kind "empty" (absent or ''), *)
(* "inline" (val is the mapping) or "path" (is_file tells whether a file   *)
(* is there, val is what the file holds).  A classification map is a       *)
(* function from a code to the sequence of <<code, label>> pairs of its    *)
(* entries.                                                                *)
(***************************************************************************)
read_yaml(content) ==
    IF content.kind = "malformed" THEN Raise("YAMLError") ELSE Return(content)

load_class_map(arg) ==
    CASE arg.kind = "empty" -> Return(<<>>)
      [] arg.kind = "inline" -> Return(arg.val)
      [] arg.kind = "path" ->
            IF arg.is_file
            THEN LET y == read_yaml(arg.val)
                 IN  IF y.raised THEN y
                     ELSE IF y.val.kind = "dict"
                          THEN Return(IF "data" \in DOMAIN y.val.val THEN y.val.val["data"] ELSE <<>>)
                          ELSE Raise("AttributeError")
            ELSE Return(<<>>)

(***************************************************************************)
(* generate_host_data, for one identity r = <<path, hostname, short>> and  *)
(* the parsed content of its definition file.                              *)
(***************************************************************************)
\* lines 253-258: the processed record name
record_name(r) ==
    LET hostparts == split(r[1], "@")
    IN  IF Len(hostparts) > 1
        THEN LET dotted == split(hostparts[2], ".")
                 parent == join(SubSeq(dotted, 1, Len(dotted) - 1), <<".">>)
             IN  parent \o <<":">> \o r[2]
        ELSE r[2]

\* lines 263-268: `elif len(hostname_parts) == 1: continue`
is_skipped_never(hostname) == FALSE

is_skipped(hostname) == hostname # Str_localhost /\ Len(split(hostname, "-")) = 1

\* lines 272-279: the keys / the values of the entries listed under a code
class_codes(map, code) ==
    IF code \in DOMAIN map THEN [i \in 1..Len(map[code]) |-> PyStr(map[code][i][1])] ELSE <<>>

class_names(map, code) ==
    IF code \in DOMAIN map THEN [i \in 1..Len(map[code]) |-> PyStr(map[code][i][2])] ELSE <<>>

\* Path(r[0]).parent.as_posix() and its .name
parent_path(path) ==
    LET parts == split(path, "/") IN join(SubSeq(parts, 1, Len(parts) - 1), <<"/">>)

path_name(path) == LET parts == split(path, "/") IN parts[Len(parts)]

\* str(v) inside an f-string
format_value(v) ==
    CASE v.kind = "str" -> v.val
      [] v.kind = "int" -> str_of_int(v.val)

\* lines 262-289: the fields derived from the names alone
base_fields(r, site_directory, domain, os_map, sub_map) ==
    LET hostname == record_name(r)
        hostname_parts == split(hostname, "-")
        default_group_path == parent_path(r[1])
        os_class == hostname_parts[1]
        sub_group == IF Len(hostname_parts) > 1 THEN hostname_parts[2] ELSE Str_misc
        classified ==
            IF hostname = Str_localhost
            THEN [k \in {"primary_group", "os_classes", "sub_groups"} |->
                    IF k = "primary_group" THEN PyStr(Str_ansible_controller)
                    ELSE PyList(<<PyStr(Str_local)>>)]
            ELSE [k \in {"os_classes", "os_class_names", "sub_groups", "sub_group_names",
                         "primary_group"} |->
                    CASE k = "os_classes" -> PyList(class_codes(os_map, hostname_parts[1]))
                      [] k = "os_class_names" -> PyList(class_names(os_map, hostname_parts[1]))
                      [] k = "sub_groups" -> PyList(class_codes(sub_map, sub_group))
                      [] k = "sub_group_names" -> PyList(class_names(sub_map, sub_group))
                      [] k = "primary_group" -> PyStr(path_name(default_group_path))]
        meta == [k \in {"hostname", "fqdn", "definition_file", "default_group_path",
                        "site_directory", "environment_domain", "ansible_host"} |->
                    CASE k = "hostname" -> PyStr(r[3])
                      [] k = "fqdn" -> PyStr(hostname)
                      [] k = "definition_file" -> PyStr(r[1])
                      [] k = "default_group_path" -> PyStr(default_group_path)
                      [] k = "site_directory" -> PyStr(site_directory)
                      [] k = "environment_domain" -> PyStr(domain)
                      [] k = "ansible_host" -> PyStr(hostname)]
    IN  PyDict([k \in (DOMAIN classified) \cup (DOMAIN meta) |->
                  IF k \in DOMAIN meta THEN meta[k] ELSE classified[k]])

\* lines 291-304: connection addresses, after the merge
connection_fields(host_data, hostname, hostname_short) ==
    LET ansible_real_host == get(host_data, "ansible_real_host", PyNone)
        d1 == IF truthy(ansible_real_host)
              THEN setitem(host_data.val, "ansible_ssh_host", ansible_real_host)
              ELSE setitem(setitem(host_data.val, "ansible_ssh_host", PyStr(hostname)),
                           "ansible_winrm_host", PyStr(hostname))
        system_type == get(PyDict(d1), "system_type", PyNone)
        lxd_host == get(PyDict(d1), "lxd_host", PyNone)
    IN  IF system_type = PyStr(Str_lxd)
        THEN IF truthy(lxd_host)
             THEN PyDict(setitem(d1, "ansible_host",
                                 PyStr(format_value(lxd_host) \o <<":">> \o hostname_short)))
             ELSE PyDict(d1)
        ELSE IF system_type = PyStr(Str_qemu)
             THEN PyDict(setitem(setitem(d1, "ansible_host", PyStr(hostname_short)),
                                 "ansible_ssh_host", PyStr(hostname_short)))
             ELSE PyDict(d1)

\* One pass of the loop of generate_host_data: the record is yielded, the
\* identity is skipped, or an exception leaves the generator.  read_yaml
\* (line 236) is called before the try block.
generate_host_data(r, content, site_directory, domain, os_map, sub_map) ==
    LET definition_data == read_yaml(content)
    IN  IF definition_data.raised
        THEN [outcome |-> "raise", exc |-> definition_data.exc, rec |-> EmptyDict]
        ELSE LET definition_file_vars == declared_vars(definition_data.val)
                 hostname == record_name(r)
             IN  IF definition_file_vars.raised
                 THEN [outcome |-> "raise", exc |-> definition_file_vars.exc, rec |-> EmptyDict]
                 ELSE IF is_skipped(hostname)
                      THEN [outcome |-> "skip", exc |-> "none", rec |-> EmptyDict]
                      ELSE [outcome |-> "yield", exc |-> "none",
                            rec |-> connection_fields(
                                        merge(base_fields(r, site_directory, domain, os_map, sub_map),
                                              definition_file_vars.val).val,
                                        hostname, r[3])]

(***************************************************************************)
(* generate_inventory, lines 345-354: one host record into the output.     *)
(***************************************************************************)
\* the names `for host_alias in host_aliases` goes through
alias_names(host_aliases) ==
    CASE host_aliases.kind = "list" -> [i \in 1..Len(host_aliases.val) |-> host_aliases.val[i].val]
      [] host_aliases.kind = "str" -> [i \in 1..Len(host_aliases.val) |-> <<host_aliases.val[i]>>]

iterable(v) == v.kind \in {"list", "str", "dict"}

RECURSIVE index_all(_, _, _)
index_all(hv, names, value) ==
    IF Len(names) = 0 THEN hv
    ELSE index_all(setitem(hv, Head(names), value), Tail(names), value)

add_record_without_aliases(out, host_record) ==
    LET hostname == host_record.val["hostname"].val
    IN  [hosts |-> Append(out.hosts, hostname),
         hostvars |-> setitem(out.hostvars, hostname, host_record)]

add_record_first_wins(out, host_record) ==
    LET hostname == host_record.val["hostname"].val
        aliases == alias_names(get(host_record, "host_aliases", PyList(<<>>)))
    IN  [hosts |-> IF \E i \in 1..Len(out.hosts) : out.hosts[i] = hostname
                   THEN out.hosts \o aliases
                   ELSE (out.hosts \o aliases) \o <<hostname>>,
         hostvars |-> IF hostname \in DOMAIN out.hostvars
                      THEN index_all(out.hostvars, aliases, host_record)
                      ELSE setitem(index_all(out.hostvars, aliases, host_record), hostname, host_record)]

add_record(out, host_record) ==
    LET hostname == host_record.val["hostname"].val
        aliases == alias_names(get(host_record, "host_aliases", PyList(<<>>)))
    IN  [hosts |-> (out.hosts \o aliases) \o <<hostname>>,
         hostvars |-> setitem(index_all(out.hostvars, aliases, host_record), hostname, host_record)]

(***************************************************************************)
(* The pipeline of InventoryModule.parse:                                  *)
(*   InventoryGenerator(... inv_data).generate_inventory()                 *)
(* The three stages are generators pulled one identity at a time:          *)
(* traverse_site opens the next file when its identities are used up,      *)
(* generate_host_data turns one identity into a record (or skips it) and   *)
(* the loop of generate_inventory files the record before the next pull.   *)
(***************************************************************************)
file_content(path) ==
    (CHOOSE i \in 1..Len(listing) :
        definition_file_path_of(kwargs.site_directory, listing[i]) = path)

Construct ==
    /\ pc = "new"
    /\ environment_domain' = kwargs.environment_domain
    /\ LET o == load_class_map(kwargs.os_class_map)
           g == load_class_map(kwargs.sub_group_map)
       IN  IF o.raised
           THEN /\ pc' = "raised" /\ exc' = o.exc
                /\ UNCHANGED <<os_class_map, sub_group_map>>
           ELSE IF g.raised
                THEN /\ pc' = "raised" /\ exc' = g.exc
                     /\ os_class_map' = o.val
                     /\ UNCHANGED sub_group_map
                ELSE /\ pc' = "running" /\ exc' = "none"
                     /\ os_class_map' = o.val
                     /\ sub_group_map' = g.val
    /\ UNCHANGED <<kwargs, listing, cursor, pending, hosts, hostvars, trace, merge_vars>>

OpenNextFile ==
    /\ pc = "running"
    /\ pending = <<>>
    /\ cursor < Len(listing)
    /\ LET t == traverse_file(kwargs.site_directory, environment_domain, listing[cursor + 1])
       IN  IF t.raised
           THEN /\ pc' = "raised" /\ exc' = t.exc
                /\ UNCHANGED pending
           ELSE /\ pending' = t.val
                /\ UNCHANGED <<pc, exc>>
    /\ cursor' = cursor + 1
    /\ UNCHANGED <<kwargs, listing, environment_domain, os_class_map, sub_group_map,
                   hosts, hostvars, trace, merge_vars>>

ProcessIdentity ==
    /\ pc = "running"
    /\ pending # <<>>
    /\ LET r == Head(pending)
           g == generate_host_data(r, listing[file_content(r[1])].data, kwargs.site_directory,
                                   environment_domain, os_class_map, sub_group_map)
       IN  IF g.outcome = "raise"
           THEN /\ pc' = "raised" /\ exc' = g.exc
                /\ trace' = Append(trace, [r |-> r, outcome |-> "raise", rec |-> EmptyDict])
                /\ UNCHANGED <<pending, hosts, hostvars>>
           ELSE IF g.outcome = "skip"
                THEN /\ pending' = Tail(pending)
                     /\ trace' = Append(trace, [r |-> r, outcome |-> "skip", rec |-> EmptyDict])
                     /\ UNCHANGED <<pc, exc, hosts, hostvars>>
                ELSE IF iterable(get(g.rec, "host_aliases", PyList(<<>>)))
                     THEN LET out == add_record([hosts |-> hosts, hostvars |-> hostvars], g.rec)
                          IN  /\ hosts' = out.hosts
                              /\ hostvars' = out.hostvars
                              /\ pending' = Tail(pending)
                              /\ trace' = Append(trace, [r |-> r, outcome |-> "yield", rec |-> g.rec])
                              /\ UNCHANGED <<pc, exc>>
                     ELSE /\ pc' = "raised" /\ exc' = "TypeError"
                          /\ trace' = Append(trace, [r |-> r, outcome |-> "yield", rec |-> g.rec])
                          /\ UNCHANGED <<pending, hosts, hostvars>>
    /\ UNCHANGED <<kwargs, listing, environment_domain, os_class_map, sub_group_map,
                   cursor, merge_vars>>

ReturnOutput ==
    /\ pc = "running"
    /\ pending = <<>>
    /\ cursor = Len(listing)
    /\ pc' = "done"
    /\ UNCHANGED <<kwargs, listing, environment_domain, os_class_map, sub_group_map, exc,
                   cursor, pending, hosts, hostvars, trace, merge_vars>>

Next == Construct \/ OpenNextFile \/ ProcessIdentity \/ ReturnOutput

(***************************************************************************)
(* Inputs of the pipeline: names, classification maps, definition files.   *)
(***************************************************************************)
Name_lf1 == <<"l", "-", "f", "-", "1">>
Name_wf1 == <<"w", "-", "f", "-", "1">>
Name_s == <<"s", "a">>
Name_range == <<"l", "-", "f", "-", "[", "1", "-", "2", "]">>
Name_child == <<"c", "@", "l", "-", "f", "-", "1">>
Name_a1 == <<"a", "1">>
Name_a2 == <<"a", "2">>
Dir_g == <<"g">>
Dir_h == <<"h">>
Dir_at == <<"g", "@", "w", "-", "x">>
SiteDirectory == <<"/", "s">>
Domains == {<<"d">>, <<"m", "-", "s">>}

OsClassMap ==
    [code \in {<<"l">>, <<"w">>} |->
        IF code = <<"l">> THEN << <<(<<"l">>), (<<"L">>)>> >>
        ELSE << <<(<<"w">>), (<<"W">>)>>, <<(<<"x">>), (<<"X">>)>> >>]

SubGroupMap ==
    [code \in {<<"f">>} |-> << <<(<<"a">>), (<<"A">>)>>, <<(<<"f">>), (<<"F">>)>> >>]

Empty == [kind |-> "empty", is_file |-> FALSE, val |-> PyNone]
Inline(m) == [kind |-> "inline", is_file |-> FALSE, val |-> m]
PathTo(is_file, content) == [kind |-> "path", is_file |-> is_file, val |-> content]
Malformed == [kind |-> "malformed", val |-> 0]

MapArgs(m) ==
    {Empty, Inline(m), PathTo(FALSE, PyNone), PathTo(TRUE, Malformed), PathTo(TRUE, PyNone),
     PathTo(TRUE, PyDict([k \in {"data"} |-> m])), PathTo(TRUE, PyDict(<<>>))}

OneKey(k, v) == PyDict([key \in {k} |-> v])
TwoKeys(k1, v1, k2, v2) == PyDict([key \in {k1, k2} |-> IF key = k1 THEN v1 ELSE v2])
SetFact(m) == OneKey("set_fact", m)

Data_none == PyNone
Data_facts ==
    PyList(<<SetFact(TwoKeys("x", PyInt(1), "host_aliases", PyList(<<PyStr(Name_a1), PyStr(Name_a2)>>))),
             OneKey("name", PyInt(1)),
             SetFact(TwoKeys("x", PyInt(2), "hostname", PyStr(Name_a1)))>>)
Data_alias_collides == PyList(<<SetFact(OneKey("host_aliases", PyList(<<PyStr(Name_lf1)>>)))>>)
Data_alias_string == PyList(<<SetFact(OneKey("host_aliases", PyStr(Name_a1)))>>)
Data_alias_number == PyList(<<SetFact(OneKey("host_aliases", PyInt(1)))>>)
Data_vars0 == OneKey(Key0, OneKey("vars", OneKey("x", PyInt(1))))
Data_mapping == OneKey("vars", OneKey("x", PyInt(1)))
Data_scalar_entry == PyList(<<SetFact(OneKey("x", PyInt(1))), PyStr(Name_a1)>>)
Data_set_fact_int == PyList(<<SetFact(OneKey("x", PyInt(1))), SetFact(PyInt(1))>>)
Data_set_fact_str == PyList(<<SetFact(PyStr(Name_a1))>>)
Data_qemu ==
    PyList(<<SetFact(TwoKeys("system_type", PyStr(Str_qemu), "ansible_real_host", PyStr(Name_a1)))>>)
Data_lxd == PyList(<<SetFact(TwoKeys("system_type", PyStr(Str_lxd), "lxd_host", PyStr(Name_a2)))>>)
Data_names == PyList(<<SetFact(OneKey("os_class_names", PyList(<<PyStr(Name_a1), PyStr(Name_a2)>>)))>>)

Datas ==
    {Data_none, Data_facts, Data_alias_collides, Data_alias_string, Data_alias_number, Data_vars0,
     Data_mapping, Malformed, Data_scalar_entry, Data_set_fact_int, Data_set_fact_str, Data_qemu,
     Data_lxd, Data_names}

File(dir, stem, data) == [dir |-> dir, stem |-> stem, data |-> data]

Files ==
    {File(Dir_g, stem, Data_none) :
        stem \in {Name_lf1, Name_wf1, Name_s, Str_localhost, Name_range, Name_child}}
    \cup {File(Dir_g, Name_lf1, data) : data \in Datas}
    \cup {File(Dir_h, Name_lf1, Data_none), File(Dir_h, Name_lf1, Data_facts),
          File(Dir_g, Name_wf1, Data_alias_collides), File(Dir_g, Name_range, Data_facts),
          File(Dir_g, Str_localhost, Data_names), File(Dir_g, Str_localhost, Data_facts),
          File(Dir_at, Name_s, Data_none), File(Dir_g, Name_s, Malformed),
          File(Dir_g, Name_s, Data_facts)}

DistinctPaths(l) ==
    \A i \in 1..Len(l), j \in 1..Len(l) :
        (i # j) => (l[i].dir # l[j].dir \/ l[i].stem # l[j].stem)

Listings == {l \in SeqsUpTo(Files, MaxFiles) : DistinctPaths(l)}

Kwargs(domain, os_arg, sub_arg) ==
    [site_directory |-> SiteDirectory, environment_domain |-> domain,
     os_class_map |-> os_arg, sub_group_map |-> sub_arg]

InitMergeIdle ==
    /\ m_pc = "idle"
    /\ m_a = PyNone
    /\ m_b = PyNone
    /\ m_data = PyNone
    /\ m_out = Return(PyNone)

InitObject ==
    /\ environment_domain = <<>>
    /\ os_class_map = <<>>
    /\ sub_group_map = <<>>
    /\ pc = "new"
    /\ exc = "none"
    /\ cursor = 0
    /\ pending = <<>>
    /\ hosts = <<>>
    /\ hostvars = <<>>
    /\ trace = <<>>

Init ==
    /\ InitMergeIdle
    /\ InitObject
    /\ kwargs \in {Kwargs(d, Inline(OsClassMap), Inline(SubGroupMap)) : d \in Domains}
                   \cup {Kwargs(<<"d">>, Empty, Empty)}
    /\ listing \in Listings

Spec == Init /\ [][Next]_vars

\* Construction under every kind of configuration value
InitCtor ==
    /\ InitMergeIdle
    /\ InitObject
    /\ kwargs \in {Kwargs(<<"d">>, o, g) : o \in MapArgs(OsClassMap), g \in MapArgs(SubGroupMap)}
    /\ listing \in {<<File(Dir_g, Name_wf1, Data_none)>>, <<File(Dir_g, Name_lf1, Data_facts)>>}

SpecCtor == InitCtor /\ [][Next]_vars

\* The walker on synthetic file names
Prefixes == {<<"h">>, <<>>, <<"l", "-", "f", "-">>, <<"a", "[", "1", "]", "b">>}
Numbers == {n + base : n \in 0..MaxNum, base \in {0, 9, 99}}
RangePairs == {pr \in Numbers \X Numbers : pr[2] - pr[1] <= MaxNum + 9}
Widths == {1, 2}

RECURSIVE ZeroPadded(_, _)
ZeroPadded(n, width) ==
    IF Len(str_of_int(n)) >= width THEN str_of_int(n)
    ELSE <<"0">> \o ZeroPadded(n, width - 1)

RangeStem(prefix, a, wa, b, wb) ==
    prefix \o <<"[">> \o ZeroPadded(a, wa) \o <<"-">> \o ZeroPadded(b, wb) \o <<"]">>

IndexStem(prefix, n, w) == prefix \o <<"[">> \o ZeroPadded(n, w) \o <<"]">>

SyntheticStems ==
    {RangeStem(p, pr[1], wa, pr[2], wb) : p \in Prefixes, pr \in RangePairs, wa \in Widths, wb \in Widths}
    \cup {IndexStem(p, n, w) : p \in Prefixes, n \in Numbers, w \in Widths}

InitWalk ==
    /\ InitMergeIdle
    /\ InitObject
    /\ kwargs = Kwargs(<<"d">>, Inline(OsClassMap), Inline(SubGroupMap))
    /\ listing \in {<<File(Dir_g, stem, Data_none)>> : stem \in SyntheticStems}

SpecWalk == InitWalk /\ [][Next]_vars

(***************************************************************************)
(* Inputs of the merge specification.                                      *)
(***************************************************************************)
Keys == {"x", "y"}
Leaves == {PyInt(n) : n \in 1..MaxLeaf}

MapsOver(values) ==
    UNION {[ks -> values] : ks \in SUBSET Keys}

Maps1 == {PyDict(f) : f \in MapsOver(Leaves)}
Maps2 == {PyDict(f) : f \in MapsOver(Leaves \cup Maps1)}
MergeArgs == Maps2 \cup {PyNone}

FactMaps ==
    Maps1 \cup {PyDict([k \in {"x"} |-> PyDict([j \in {"x"} |-> PyInt(1)])]),
                PyDict([k \in {"x"} |-> PyDict([j \in {"y"} |-> PyInt(MaxLeaf)])])}
FactEntries == {PyDict([k \in {"set_fact"} |-> m]) : m \in FactMaps}
                 \cup {PyDict([k \in {"name"} |-> PyInt(1)])}

InitPipelineIdle ==
    /\ kwargs = <<>>
    /\ listing = <<>>
    /\ environment_domain = <<>>
    /\ os_class_map = <<>>
    /\ sub_group_map = <<>>
    /\ pc = "idle"
    /\ exc = "none"
    /\ cursor = 0
    /\ pending = <<>>
    /\ hosts = <<>>
    /\ hostvars = <<>>
    /\ trace = <<>>

InitMerge ==
    /\ InitPipelineIdle
    /\ m_out = Return(PyNone)
    /\ \/ /\ m_pc = "merge"
          /\ m_a \in MergeArgs
          /\ m_b \in MergeArgs
          /\ m_data = PyNone
       \/ /\ m_pc = "facts"
          /\ m_a = PyNone
          /\ m_b = PyNone
          /\ m_data \in {PyList(l) : l \in SeqsUpTo(FactEntries, MaxFacts)}

CallMerge ==
    /\ m_pc = "merge"
    /\ m_out' = merge(m_a, m_b)
    /\ m_pc' = "merged"
    /\ UNCHANGED <<m_a, m_b, m_data, pipeline_vars>>

CallDeclaredVars ==
    /\ m_pc = "facts"
    /\ m_out' = declared_vars(m_data)
    /\ m_pc' = "reduced"
    /\ UNCHANGED <<m_a, m_b, m_data, pipeline_vars>>

NextMerge == CallMerge \/ CallDeclaredVars

SpecMerge == InitMerge /\ [][NextMerge]_vars

(***************************************************************************)
(* Claims about the walker (SpecWalk), the constructor (SpecCtor) and the  *)
(* pipeline (Spec).                                                        *)
(***************************************************************************)
DefinitionFilePath == definition_file_path_of(kwargs.site_directory, listing[1])

\* every identity pulled from traverse_site
Walked == [i \in 1..Len(trace) |-> trace[i].r]

ExpectedRange(prefix, a, b) ==
    [n \in 1..(b - a + 1) |-> <<DefinitionFilePath, prefix \o ZeroPadded(a + n - 1, 2)>>]

WalkedPathAndShort == [i \in 1..Len(Walked) |-> <<Walked[i][1], Walked[i][3]>>]

\* C1: a definition file whose stem is prefix[A-B] with A <= B yields exactly
\* B-A+1 identities, one per number of A..B in ascending order, each with short
\* name prefix + the number zero-padded to at least two digits and each with
\* the same definition file path; a stem prefix[N] yields exactly one identity.
C1_SyntheticRangeExpansion ==
    (pc = "done") =>
        /\ \A p \in Prefixes, a \in Numbers, b \in Numbers, wa \in Widths, wb \in Widths :
              (listing[1].stem = RangeStem(p, a, wa, b, wb) /\ a <= b)
                  => WalkedPathAndShort = ExpectedRange(p, a, b)
        /\ \A p \in Prefixes, n \in Numbers, w \in Widths :
              (listing[1].stem = IndexStem(p, n, w))
                  => WalkedPathAndShort = ExpectedRange(p, n, n)

C1_Witness ==
    /\ pc = "done"
    /\ listing[1].stem = <<"l", "-", "f", "-", "[", "9", "9", "-", "1", "0", "1", "]">>
    /\ Len(trace) = 3
    /\ trace[1].r[3] = <<"l", "-", "f", "-", "9", "9">>
    /\ trace[3].r[3] = <<"l", "-", "f", "-", "1", "0", "1">>

DataOf(i) == listing[file_content(trace[i].r[1])].data

NotAMapping(v) == v.kind # "dict"

BadShape(data) ==
    \/ data.kind = "malformed"
    \/ data.kind = "dict"
    \/ /\ data.kind = "list"
       /\ \E e \in 1..Len(data.val) :
             \/ NotAMapping(data.val[e])
             \/ /\ "set_fact" \in DOMAIN data.val[e].val
                /\ NotAMapping(data.val[e].val["set_fact"])

\* C4: for every host identity whose definition file fails to parse or has an
\* unexpected shape, generate_host_data catches the error, treats the host as
\* having no declared variables and goes on; no definition file aborts the run.
C4_DefinitionFileErrorsAreIsolated ==
    \A i \in 1..Len(trace) :
        BadShape(DataOf(i)) =>
            /\ trace[i].outcome # "raise"
            /\ pc # "raised"

HasNoDash(name) == \A c \in 1..Len(name) : name[c] # "-"

Filed(i) ==
    /\ trace[i].outcome = "yield"
    /\ iterable(get(trace[i].rec, "host_aliases", PyList(<<>>)))

HostnameOf(i) == trace[i].rec.val["hostname"].val
AliasesOf(i) == alias_names(get(trace[i].rec, "host_aliases", PyList(<<>>)))
NamesOf(i) == {HostnameOf(i)} \cup {AliasesOf(i)[a] : a \in 1..Len(AliasesOf(i))}
InHosts(name) == \E h \in 1..Len(hosts) : hosts[h] = name

Dropped(i) ==
    /\ trace[i].outcome # "yield"
    /\ (\A j \in 1..Len(trace) : Filed(j) => trace[i].r[3] \notin NamesOf(j))
          => (~InHosts(trace[i].r[3]) /\ trace[i].r[3] \notin DOMAIN hostvars)

\* C5 as stated: a host whose short hostname contains no '-' and is not the
\* literal 'localhost' is dropped, whatever the environment_domain.
C5_NoDashShortNameDropped ==
    \A i \in 1..Len(trace) :
        (HasNoDash(trace[i].r[3]) /\ trace[i].r[3] # Str_localhost) => Dropped(i)

\* C5 amended: a host whose processed record name (short.environment_domain,
\* prefixed with "parent:" when the definition file path contains '@') contains
\* no '-' and is not the literal 'localhost' is dropped: no record is emitted
\* and neither all.hosts nor _meta.hostvars gets its name from that file.
C5_NoDashRecordNameDropped ==
    \A i \in 1..Len(trace) :
        (HasNoDash(record_name(trace[i].r)) /\ record_name(trace[i].r) # Str_localhost)
            => Dropped(i)

C5_Witness ==
    /\ pc = "done"
    /\ Len(trace) = 2
    /\ trace[1].r[3] = Name_s
    /\ trace[1].r[2] = Name_s \o <<".", "d">>
    /\ trace[1].outcome = "skip"
    /\ trace[2].outcome = "yield"
    /\ hosts = <<Name_lf1>>
    /\ DOMAIN hostvars = {Name_lf1}

PairedWith(rec, codes, names, map) ==
    /\ codes \in DOMAIN rec.val
    /\ names \in DOMAIN rec.val
    /\ Len(rec.val[codes].val) = Len(rec.val[names].val)
    /\ \A p \in 1..Len(rec.val[codes].val) :
          \E code \in DOMAIN map : \E q \in 1..Len(map[code]) :
              map[code][q] = <<rec.val[codes].val[p].val, rec.val[names].val[p].val>>

\* C6: every host record emitted, the localhost record included, has
\* os_classes and os_class_names of equal length and positionally paired as in
\* the OS-class map, and likewise sub_groups and sub_group_names.
C6_ClassListsPaired ==
    \A i \in 1..Len(trace) :
        (trace[i].outcome = "yield") =>
            /\ PairedWith(trace[i].rec, "os_classes", "os_class_names", os_class_map)
            /\ PairedWith(trace[i].rec, "sub_groups", "sub_group_names", sub_group_map)

MissingOrMalformed(arg) ==
    arg.kind = "path" /\ (~arg.is_file \/ arg.val.kind = "malformed")

\* C7: constructing with os_class_map or sub_group_map given as a path ends in
\* a fatal load-time error whenever the file at that path is missing or its
\* YAML is malformed; construction never completes with a silently empty
\* classification map in those cases.
C7_MissingOrMalformedMapIsFatal ==
    (pc # "new" /\ (MissingOrMalformed(kwargs.os_class_map)
                      \/ MissingOrMalformed(kwargs.sub_group_map)))
        => (pc = "raised" /\ cursor = 0)

\* C8: for every host record whose variables contain a host_aliases sequence,
\* all.hosts contains the record's hostname and every alias, and _meta.hostvars
\* maps each of them to that record, unless a later record was written under
\* the same name.
C8_AliasesShareTheRecord ==
    \A i \in 1..Len(trace) :
        (Filed(i) /\ get(trace[i].rec, "host_aliases", PyNone).kind = "list") =>
            \A name \in NamesOf(i) :
                /\ InHosts(name)
                /\ name \in DOMAIN hostvars
                /\ (\A j \in (i + 1)..Len(trace) : Filed(j) => name \notin NamesOf(j))
                      => hostvars[name] = trace[i].rec

C8_Witness ==
    /\ pc = "done"
    /\ Len(trace) = 1
    /\ Filed(1)
    /\ AliasesOf(1) = <<Name_a1, Name_a2>>
    /\ hosts = <<Name_a1, Name_a2, Name_lf1>>
    /\ hostvars[Name_a1] = hostvars[Name_lf1]
    /\ hostvars[Name_a2] = trace[1].rec

RecordsNamed(name) == {i \in 1..Len(trace) : Filed(i) /\ HostnameOf(i) = name}
Occurrences(name) == {h \in 1..Len(hosts) : hosts[h] = name}
Last(S) == CHOOSE i \in S : \A j \in S : j <= i

RECURSIVE EntriesThrough(_)
EntriesThrough(i) ==
    IF i = 0 THEN 0
    ELSE EntriesThrough(i - 1) + (IF Filed(i) THEN Len(AliasesOf(i)) + 1 ELSE 0)

DuplicatesKept(name) ==
    /\ Cardinality(Occurrences(name)) = Cardinality(RecordsNamed(name))
    /\ \A i \in RecordsNamed(name) : hosts[EntriesThrough(i)] = name
    /\ hostvars[name] = trace[Last(RecordsNamed(name))].rec

HostNames == {HostnameOf(i) : i \in {j \in 1..Len(trace) : Filed(j)}}

\* C10 as stated: when two or more records carry the same short hostname,
\* all.hosts contains the name once per such record, in discovery order, and
\* _meta.hostvars[name] holds the record processed last among them.
C10_DuplicatesLastWins ==
    \A name \in HostNames :
        (Cardinality(RecordsNamed(name)) >= 2) => DuplicatesKept(name)

NotAnAlias(name) ==
    \A j \in 1..Len(trace) :
        Filed(j) => \A a \in 1..Len(AliasesOf(j)) : AliasesOf(j)[a] # name

\* C10 amended: the same, for a name that no record lists in host_aliases.
C10_DuplicatesLastWinsUnlessAliased ==
    \A name \in HostNames :
        (Cardinality(RecordsNamed(name)) >= 2 /\ NotAnAlias(name)) => DuplicatesKept(name)

C10_Witness ==
    /\ pc = "done"
    /\ Len(trace) = 2
    /\ RecordsNamed(Name_lf1) = {1, 2}
    /\ NotAnAlias(Name_lf1)
    /\ trace[1].rec # trace[2].rec
    /\ hosts = <<Name_lf1, Name_lf1>>
    /\ hostvars[Name_lf1] = trace[2].rec

(***************************************************************************)
(* Claims about merge and the fact-list reduction (SpecMerge).             *)
(***************************************************************************)
BothNonEmpty == isdict(m_a) /\ isdict(m_b) /\ truthy(m_a) /\ truthy(m_b)

\* C2: for non-empty mappings a and b, merge(a, b) has the keys of a and of b;
\* a key only in a keeps a's value, a key only in b gets b's value, a key in
\* both with two mappings holds the recursive merge, and a key in both with a
\* non-mapping value keeps a's value.
C2_MergeFirstArgumentWins ==
    (m_pc = "merged" /\ BothNonEmpty) =>
        /\ ~m_out.raised
        /\ isdict(m_out.val)
        /\ DOMAIN m_out.val.val = (DOMAIN m_a.val) \cup (DOMAIN m_b.val)
        /\ \A k \in DOMAIN m_out.val.val :
              /\ (k \notin DOMAIN m_b.val) => m_out.val.val[k] = m_a.val[k]
              /\ (k \notin DOMAIN m_a.val) => m_out.val.val[k] = m_b.val[k]
              /\ (k \in DOMAIN m_a.val /\ k \in DOMAIN m_b.val) =>
                    IF isdict(m_a.val[k]) /\ isdict(m_b.val[k])
                    THEN m_out.val.val[k] = merge(m_a.val[k], m_b.val[k]).val
                    ELSE m_out.val.val[k] = m_a.val[k]

C2_Witness ==
    /\ m_pc = "merged"
    /\ BothNonEmpty
    /\ "x" \in DOMAIN m_a.val /\ "x" \in DOMAIN m_b.val
    /\ ~isdict(m_a.val["x"]) /\ ~isdict(m_b.val["x"])
    /\ m_a.val["x"] # m_b.val["x"]
    /\ "y" \notin DOMAIN m_a.val /\ "y" \in DOMAIN m_b.val
    /\ m_out.val = PyDict([k \in Keys |-> IF k = "x" THEN m_a.val["x"] ELSE m_b.val["y"]])

\* C3: when exactly one input of merge is empty or absent the result is the
\* non-empty input, whichever position it is in; when both are empty the result
\* is empty; likewise in the recursive step on a key empty in a, non-empty in b.
C3_EmptyInputYieldsTheOther ==
    (m_pc = "merged") =>
        /\ (~truthy(m_a) /\ truthy(m_b)) => (~m_out.raised /\ m_out.val = m_b)
        /\ (truthy(m_a) /\ ~truthy(m_b)) => (~m_out.raised /\ m_out.val = m_a)
        /\ (~truthy(m_a) /\ ~truthy(m_b)) => (~m_out.raised /\ m_out.val = EmptyDict)
        /\ BothNonEmpty =>
              \A k \in (DOMAIN m_a.val) \cap (DOMAIN m_b.val) :
                  (m_a.val[k] = EmptyDict /\ isdict(m_b.val[k]) /\ truthy(m_b.val[k]))
                      => m_out.val.val[k] = m_b.val[k]

FactsOK == m_pc = "reduced" /\ m_data.kind = "list" /\ first_error(m_data.val) = "none"
Defines(fs, i, k) == k \in DOMAIN fs[i].val
DefinesLeaf(fs, i, k) == Defines(fs, i, k) /\ ~isdict(fs[i].val[k])

\* C9 as stated: of two fact entries defining the same key with non-mapping
\* values, the value of the earlier entry is kept.
C9_EarlierFactWins ==
    FactsOK =>
        LET fs == facts_of(m_data.val)
        IN  \A i \in 1..Len(fs), j \in 1..Len(fs), k \in Keys :
                (i < j /\ DefinesLeaf(fs, i, k) /\ DefinesLeaf(fs, j, k)
                       /\ \A h \in 1..(i - 1) : ~Defines(fs, h, k))
                    => (~m_out.raised /\ m_out.val.val[k] = fs[i].val[k])

\* C9 amended: the declared variables have the keys of all set_fact mappings;
\* of two entries defining the same key with non-mapping values, the value of
\* the later entry is kept, and a key defined by one entry has that entry's value.
C9_LaterFactWins ==
    FactsOK =>
        LET fs == facts_of(m_data.val)
        IN  /\ ~m_out.raised
            /\ isdict(m_out.val)
            /\ DOMAIN m_out.val.val = UNION {DOMAIN fs[i].val : i \in 1..Len(fs)}
            /\ \A i \in 1..Len(fs), j \in 1..Len(fs), k \in Keys :
                  (i < j /\ DefinesLeaf(fs, i, k) /\ DefinesLeaf(fs, j, k)
                         /\ \A h \in (j + 1)..Len(fs) : ~Defines(fs, h, k))
                      => m_out.val.val[k] = fs[j].val[k]
            /\ \A i \in 1..Len(fs), k \in Keys :
                  (Defines(fs, i, k) /\ \A h \in 1..Len(fs) : (h # i => ~Defines(fs, h, k)))
                      => m_out.val.val[k] = fs[i].val[k]

C9_Witness ==
    /\ FactsOK
    /\ LET fs == facts_of(m_data.val)
       IN  /\ Len(m_data.val) > Len(fs)
           /\ Len(fs) >= 2
           /\ DefinesLeaf(fs, 1, "x") /\ DefinesLeaf(fs, Len(fs), "x")
           /\ fs[1].val["x"] # fs[Len(fs)].val["x"]
           /\ Defines(fs, 1, "y") /\ ~Defines(fs, Len(fs), "y")
           /\ m_out.val.val["x"] = fs[Len(fs)].val["x"]
           /\ m_out.val.val["y"] = fs[1].val["y"]

====
